---- MODULE Spec2Model ----
(***************************************************************************)
(* Model of the authenticated post-access path of the social-media backend *)
(* (src/services/post_service.py, src/utils/cache.py, src/utils/auth.py,   *)
(* src/utils/dependencies.py, src/controllers/post_controller.py).         *)
(*                                                                         *)
(* Every request is a process that runs its dependency resolution (bearer  *)
(* token -> user id) and then the service method, one repository call or   *)
(* one cache call per step.  PostService and CacheManager take no lock, so *)
(* the steps of requests that are in the service layer at the same time    *)
(* interleave freely (Spec); SpecSeq admits a request only when no other   *)
(* request is in flight.                                                   *)
(***************************************************************************)
EXTENDS Integers, Sequences, FiniteSets, TLC

(***************************************************************************)
(* Bounds of the model and program constants                               *)
(***************************************************************************)
\* ids of the accounts that exist in the users table when the process starts
Users == {1, 2}
\* post texts a client submits
Texts == {"a", "b"}
\* request slots: requests that can be in flight at the same time
Reqs == {1, 2}
\* total number of rows ever inserted into the posts table
MaxPosts == 2
\* number of clock advances
MaxTicks == 1
\* number of requests served: when requests overlap (Spec), when they do
\* not (SpecSeq), and when every kind of credential is presented (SpecAuth)
MaxRequests == 4
MaxSeqRequests == 4
MaxAuthRequests == 2
\* TTLCache(maxsize=...): 1000 in the program, scaled to one less than the
\* number of owner ids that tokens carry
MaxCacheSize == 2
\* seconds the clock advances while a client holds a token
MaxSeconds == 3
\* half TTLs the clock advances, and requests served, while entries age (SpecTTL)
MaxHalfTicks == 3
MaxTtlRequests == 4
\* requests served while clients write owner ids into them (SpecOwner)
MaxOwnerRequests == 3
\* signups served while they overlap (SpecSignup), signups and logins served
\* one at a time (SpecLogin)
MaxSignupRequests == 4
MaxLoginRequests == 3
\* list and create requests served while they overlap and entries age
\* (SpecOverwrite)
MaxOverwriteRequests == 4
\* listPosts requests served, one at a time, for more owners than the cache
\* holds (SpecEvict)
MaxEvictRequests == 4
\* TTLCache(ttl=300)
TTL == 300
\* the clock advances by a TTL: an entry is seen at the time it is set and
\* exactly at its expiry
TickStep == TTL
\* JWT_ACCESS_TOKEN_EXPIRE_MINUTES (default "30"), and the same in seconds
ACCESS_TOKEN_EXPIRE_MINUTES == 30
ACCESS_TOKEN_EXPIRE == ACCESS_TOKEN_EXPIRE_MINUTES * 60

PostIds == 1..MaxPosts
\* user ids that validly signed tokens carry: the accounts, and an id that
\* references no row of the users table
TokenUsers == Users \cup {3}

VARIABLES
    users,      \* the users table: a set of rows
    budget,     \* number of requests that may still arrive
    now,        \* the clock (time.monotonic of the cache, func.now() of the database)
    posts,      \* the posts table: a set of rows
    nextId,     \* the next autoincrement primary key of the posts table
    cache,      \* posts_cache: cache key -> entry, for the keys physically present
    lru,        \* posts_cache's link order, least recently used first
    req,        \* request slot -> the request it runs (position and locals)
    out,        \* the request that the last step completed, with its response
    orphaned,   \* owners with a committed write that ended without invalidation
    created201, \* ids of the posts whose createPost has returned 201
    deleted200, \* ids of the posts whose deletePost has returned its confirmation
    jwt,        \* a token a client holds, and what verify_token last made of it
    chosen      \* account id -> the password its owner signed up with (history)

vars == <<users, budget, now, posts, nextId, cache, lru, req, out, orphaned,
          created201, deleted200, jwt, chosen>>

(***************************************************************************)
(* Sequences and sets                                                      *)
(***************************************************************************)
Range(s) == {s[i] : i \in DOMAIN s}

\* all the orderings of a finite set
RECURSIVE Orderings(_)
Orderings(S) ==
    IF S = {} THEN {<<>>}
    ELSE UNION {{<<x>> \o t : t \in Orderings(S \ {x})} : x \in S}

RemoveKey(s, k) == SelectSeq(s, LAMBDA x : x # k)

(***************************************************************************)
(* Responses (fastapi.HTTPException and the response models)               *)
(***************************************************************************)
NoResp == [status |-> 0, detail |-> <<"", "">>, body |-> <<>>]
Response(st, d, b) == [status |-> st, detail |-> d, body |-> b]
HTTPException(st, d) == Response(st, d, <<>>)

(***************************************************************************)
(* utils/auth.py and utils/dependencies.py: bearer credential -> user id   *)
(***************************************************************************)
\* A bearer credential as the request carries it: no Authorization header,
\* a string that is no JWT, or a JWT with its signature state and claims
\* (sub or user_id 0: the claim is absent from the payload).
NoToken == [kind |-> "absent", sig |-> FALSE, sub |-> 0, user_id |-> 0, exp |-> 0]

Jwt(sigok, sub, uid, exp) ==
    [kind |-> "jwt", sig |-> sigok, sub |-> sub, user_id |-> uid, exp |-> exp]

\* create_access_token: the claims given, plus exp = utcnow() + 30 minutes
create_access_token(sub, uid, t) == Jwt(TRUE, sub, uid, t + ACCESS_TOKEN_EXPIRE)

\* the tokens that signup and login hand to the accounts of the table
AccountTokens(t) == {create_access_token(u, u, t) : u \in Users}

\* the credentials a client can present at time t
Credentials(t) ==
    {NoToken, [NoToken EXCEPT !.kind = "malformed"]}
    \cup {create_access_token(u, u, t) : u \in TokenUsers}
    \cup {Jwt(FALSE, 1, 1, t + ACCESS_TOKEN_EXPIRE),   \* forged or tampered
          Jwt(TRUE, 1, 1, t - 1),                      \* expired
          Jwt(TRUE, 0, 1, t + ACCESS_TOKEN_EXPIRE),    \* no sub claim
          Jwt(TRUE, 1, 0, t + ACCESS_TOKEN_EXPIRE)}    \* no user_id claim

\* the JWTError of jwt.decode without the check of the exp claim
JwtDecodeNoExpiry(token, t) ==
    IF token.kind # "jwt" THEN "Not enough segments"
    ELSE IF ~token.sig THEN "Signature verification failed."
    ELSE ""

\* jwt.decode: the JWTError it raises ("" when the token decodes)
JwtDecodeError(token, t) ==
    IF token.kind # "jwt" THEN "Not enough segments"
    ELSE IF ~token.sig THEN "Signature verification failed."
    ELSE IF token.exp < t THEN "Signature has expired."
    ELSE ""

\* verify_token: the payload, or the HTTPException it raises
verify_token(token, t) ==
    IF JwtDecodeError(token, t) # ""
    THEN [ok |-> FALSE, user_id |-> 0,
          exc |-> HTTPException(401, <<"invalid token", JwtDecodeError(token, t)>>)]
    ELSE IF token.sub = 0 \/ token.user_id = 0
    THEN [ok |-> FALSE, user_id |-> 0,
          exc |-> HTTPException(401, <<"invalid token", "required fields missing">>)]
    ELSE [ok |-> TRUE, user_id |-> token.user_id, exc |-> NoResp]

\* extract_user_id_from_token
extract_user_id_from_token(token, t) ==
    LET v == verify_token(token, t) IN
    IF ~v.ok THEN v
    ELSE IF v.user_id = 0
    THEN [ok |-> FALSE, user_id |-> 0,
          exc |-> HTTPException(401, <<"token has no user id", "">>)]
    ELSE v

\* HTTPBearer() (auto_error) on a request without bearer credentials: the
\* status is the one of the installed fastapi, 403 before it changed to 401
HTTPBearerMissing == {HTTPException(403, <<"Not authenticated", "">>),
                      HTTPException(401, <<"Not authenticated", "">>)}

\* get_current_user_id: the outcomes of the dependency for a credential
get_current_user_id(token, t) ==
    IF token.kind = "absent"
    THEN {[ok |-> FALSE, user_id |-> 0, exc |-> e] : e \in HTTPBearerMissing}
    ELSE {extract_user_id_from_token(token, t)}

\* an optional authentication that lets the HTTPException through
OptionalPropagates(token, t) ==
    IF token.kind = "absent"
    THEN [ok |-> FALSE, user_id |-> 0, exc |-> NoResp]
    ELSE extract_user_id_from_token(token, t)

\* optional_authentication: HTTPBearer(auto_error=False) gives None for a
\* request without bearer credentials; the user id of the token, or None when
\* extract_user_id_from_token raises HTTPException (ok is FALSE for None)
optional_authentication(token, t) ==
    IF token.kind = "absent"
    THEN [ok |-> FALSE, user_id |-> 0, exc |-> NoResp]
    ELSE LET v == extract_user_id_from_token(token, t) IN
         IF v.ok THEN [ok |-> TRUE, user_id |-> v.user_id, exc |-> NoResp]
         ELSE [ok |-> FALSE, user_id |-> 0, exc |-> NoResp]

\* why a credential is refused ("ok" when it is not)
CredentialState(token, t) ==
    IF token.kind = "absent" THEN "absent"
    ELSE IF token.kind = "malformed" THEN "malformed"
    ELSE IF ~token.sig THEN "bad_signature"
    ELSE IF token.exp < t THEN "expired"
    ELSE IF token.sub = 0 \/ token.user_id = 0 THEN "missing_claims"
    ELSE "ok"

\* create_access_token(data, expires_delta): exp = utcnow() + expires_delta
\* when one is given (a zero timedelta is falsy), else utcnow() + 30 minutes
TokenExpiry(expires_delta, t) ==
    IF expires_delta # 0 THEN t + expires_delta ELSE t + ACCESS_TOKEN_EXPIRE

create_access_token_in(sub, uid, expires_delta, t) ==
    Jwt(TRUE, sub, uid, TokenExpiry(expires_delta, t))

\* no token held
NoJwt == [token |-> NoToken, iat |-> 0, delta |-> 0, at |-> 0, state |-> "none",
          ok |-> FALSE, user_id |-> 0, exc |-> NoResp]

(***************************************************************************)
(* models/post.py and schemas/post.py: rows and their response model       *)
(***************************************************************************)
\* the texts a client submits to test the size limit: empty, and of 1 MiB
\* less 33 bytes, 1 MiB less 32 bytes, 1 MiB and 1 MiB plus 1 byte of ASCII
LimitTexts == {"", "A*1048543", "A*1048544", "A*1048576", "A*1048577"}

\* len(v): the number of characters of a text
StrLen(v) ==
    CASE v = ""          -> 0
      [] v = "A*1048543" -> 1048543
      [] v = "A*1048544" -> 1048544
      [] v = "A*1048576" -> 1048576
      [] v = "A*1048577" -> 1048577
      [] OTHER           -> 1

\* len(v.encode("utf-8")): every text of the model is ASCII, one byte a character
Utf8Len(v) == StrLen(v)

\* sys.getsizeof of a bytes object of n bytes: the object header and the
\* trailing NUL of CPython (64-bit) come on top of the n bytes
BytesOverhead == 33
getsizeof(n) == n + BytesOverhead

\* PostCreate.validate_text_size: text_size = sys.getsizeof(v.encode("utf-8"));
\* ValueError if text_size > 1024 * 1024
validate_text_size(v) == ~(getsizeof(Utf8Len(v)) > 1024 * 1024)

\* a validation that lets every text through
AcceptAnyText(v) == TRUE

\* PostCreate(text=v): Field(min_length=1), then the field validator
PostCreateValid(v) == StrLen(v) >= 1 /\ validate_text_size(v)

\* the response of FastAPI to a body that fails validation
RequestValidationError == HTTPException(422, <<"validation error", "">>)

\* a row stored under the first account, whoever creates it
PostOfFirstAccount(id, text, uid, t) ==
    [id |-> id, text |-> text, user_id |-> 1, created_at |-> t, updated_at |-> t]

\* Post(text=..., user_id=...) as the database stores it: autoincrement id,
\* created_at and updated_at from server_default func.now()
Post(id, text, uid, t) ==
    [id |-> id, text |-> text, user_id |-> uid, created_at |-> t, updated_at |-> t]

\* PostResponse.model_validate(post) and PostResponse(**post): a PostResponse
\* object built from the five fields of a row or of a cached dict
PostResponse(post) ==
    [model |-> "PostResponse",
     id |-> post.id, text |-> post.text, user_id |-> post.user_id,
     created_at |-> post.created_at, updated_at |-> post.updated_at]

\* a dump that loses the posts
DumpNothing(responses) == <<>>

\* post.model_dump() for every post of a list: plain dicts of the five fields
model_dump(responses) ==
    [i \in DOMAIN responses |->
        [id |-> responses[i].id, text |-> responses[i].text,
         user_id |-> responses[i].user_id,
         created_at |-> responses[i].created_at,
         updated_at |-> responses[i].updated_at]]

\* db.query(Post).filter(Post.user_id == user_id)
PostsOf(table, uid) == {p \in table : p.user_id = uid}

\* .order_by(Post.created_at.desc()).all(): the orders the database may
\* return; rows with the same created_at come in any order
QueryUserPosts(table, uid) ==
    {s \in Orderings(PostsOf(table, uid)) :
        \A i, j \in DOMAIN s : i < j => s[i].created_at >= s[j].created_at}

\* a lookup by id alone, without the owner filter
QueryPostAnyOwner(table, pid, uid) == {p \in table : p.id = pid}

\* db.query(Post).filter(Post.id == post_id, Post.user_id == user_id).first()
QueryPost(table, pid, uid) == {p \in table : p.id = pid /\ p.user_id = uid}

(***************************************************************************)
(* utils/cache.py: posts_cache = TTLCache(maxsize, ttl) and CacheManager   *)
(***************************************************************************)
\* a key that does not depend on the user: one entry shared by all owners
SharedCacheKey(user_id, prefix) == <<prefix, 0>>

\* CacheManager._make_cache_key: f"{prefix}:{user_id}"
_make_cache_key(user_id, prefix) == <<prefix, user_id>>

\* membership without the expiry test: an entry that never expires
ContainsForever(c, key, t) == key \in DOMAIN c

\* TTLCache.__contains__: present and not expired
Contains(c, key, t) == key \in DOMAIN c /\ t < c[key].expires

\* TTLCache.expire: the entries left once the expired ones are removed
Expire(c, t) == [k \in {x \in DOMAIN c : t < c[x].expires} |-> c[k]]

\* len(posts_cache): the entries that have not expired
CacheLen(c, t) == Cardinality(DOMAIN Expire(c, t))

\* a get that takes an empty cached list for no list (`if cached_posts:`)
CacheGetNonEmpty(c, user_id, t) ==
    LET key == _make_cache_key(user_id, "posts") IN
    IF Contains(c, key, t) /\ c[key].posts # <<>>
    THEN [hit |-> TRUE, posts |-> c[key].posts, expires |-> c[key].expires]
    ELSE [hit |-> FALSE, posts |-> <<>>, expires |-> 0]

\* CacheManager.get_user_posts: the cached list, or None. The entry is a dict
\* of three keys, so `if cached_data:` holds for every entry found, and the
\* service tests the list with `is not None`: an empty list is a hit
CacheGetUserPosts(c, user_id, t) ==
    LET key == _make_cache_key(user_id, "posts") IN
    IF Contains(c, key, t)
    THEN [hit |-> TRUE, posts |-> c[key].posts, expires |-> c[key].expires]
    ELSE [hit |-> FALSE, posts |-> <<>>, expires |-> 0]

\* a read that restarts the lifetime of the entry it returns
TouchOnGet(c, user_id, t) ==
    LET key == _make_cache_key(user_id, "posts") IN
    IF key \in DOMAIN c /\ t < c[key].expires
    THEN [c EXCEPT ![key].expires = t + TTL]
    ELSE c

\* posts_cache.get(cache_key) -> TTLCache.__getitem__: the entries after a
\* read; the entry read keeps the expiry its set gave it
CacheAfterGet(c, user_id, t) == c

\* TTLCache.__getitem__ moves the key it returns to the end of the links
LruAfterGet(c, order, user_id, t) ==
    LET key == _make_cache_key(user_id, "posts") IN
    IF Contains(c, key, t) THEN Append(RemoveKey(order, key), key) ELSE order

\* a set that never evicts
CacheSetOrderUnbounded(c, order, user_id, t) ==
    LET key  == _make_cache_key(user_id, "posts")
        live == SelectSeq(order, LAMBDA k : k \in DOMAIN Expire(c, t))
    IN Append(RemoveKey(live, key), key)

\* TTLCache.__setitem__ has to call popitem: the key is new and the entries
\* that have not expired fill the cache
Evicts(c, user_id, t) ==
    /\ _make_cache_key(user_id, "posts") \notin DOMAIN Expire(c, t)
    /\ CacheLen(c, t) + 1 > MaxCacheSize

\* CacheManager.set_user_posts -> TTLCache.__setitem__: expire, evict the
\* least recently used entries while the cache is full and the key is new,
\* store the value with expires = now + ttl, link the key last
CacheSetOrder(c, order, user_id, t) ==
    LET key  == _make_cache_key(user_id, "posts")
        live == SelectSeq(order, LAMBDA k : k \in DOMAIN Expire(c, t))
        kept == IF key \in DOMAIN Expire(c, t) \/ Len(live) + 1 <= MaxCacheSize
                THEN live
                ELSE SubSeq(live, Len(live) + 2 - MaxCacheSize, Len(live))
    IN Append(RemoveKey(kept, key), key)

\* a set that leaves an entry it overwrites with the expiry it had
KeepExpiryOnSet(c, order, user_id, posts_dict, t) ==
    LET key  == _make_cache_key(user_id, "posts")
        keep == Range(CacheSetOrder(c, order, user_id, t))
    IN [k \in keep |->
          IF k = key
          THEN [posts |-> posts_dict, cached_at |-> t, user_id |-> user_id,
                expires |-> IF Contains(c, key, t) THEN c[key].expires ELSE t + TTL]
          ELSE c[k]]

CacheSetUserPosts(c, order, user_id, posts_dict, t) ==
    LET key  == _make_cache_key(user_id, "posts")
        keep == Range(CacheSetOrder(c, order, user_id, t))
    IN [k \in keep |->
          IF k = key
          THEN [posts |-> posts_dict, cached_at |-> t, user_id |-> user_id,
                expires |-> t + TTL]
          ELSE c[k]]

\* a deletion that empties the cache
CacheClear(c, key) == [k \in {} |-> 0]

\* del posts_cache[cache_key] -> TTLCache.__delitem__: removes the key; raises
\* KeyError when the key is absent or its entry has expired
CacheDel(c, key) == [k \in DOMAIN c \ {key} |-> c[k]]

\* CacheManager.invalidate_user_posts with check and deletion at one instant:
\* the entry is deleted if it is in the cache, and nothing is done otherwise
invalidate_user_posts(c, user_id, t) ==
    LET key == _make_cache_key(user_id, "posts") IN
    IF Contains(c, key, t) THEN CacheDel(c, key) ELSE c

(***************************************************************************)
(* schemas/user.py and utils/auth.py: emails and passwords                 *)
(***************************************************************************)
\* email addresses, by number (0 is no address): 1 and 2 are the addresses of
\* the accounts of the table, 3 is "new@example.com", 4 is the same address
\* written "new@EXAMPLE.COM", 5 is an address no signup uses
Emails == 1..5

\* EmailStr: email-validator returns the address with its domain in lower case
EmailStr(v) == IF v = 4 THEN 3 ELSE v

\* the passwords clients submit: two of 9 characters, one of 4 lower-case
\* letters, and two of 73 characters that differ in the last one only
Passwords == {"Passw0rd1", "Passw0rd2", "pass", "Aa1*72+x", "Aa1*72+y"}

\* the password of the accounts of the table
AccountPassword == "Passw0rd1"

PasswordLen(v) ==
    CASE v = "pass" -> 4
      [] v \in {"Aa1*72+x", "Aa1*72+y"} -> 73
      [] OTHER -> 9

\* re.search(r"\d", v) and re.search(r"[A-Z]", v); every password here has a letter
HasDigitAndUpper(v) == v # "pass"

\* UserSignup: password of 8 to 100 characters with a letter, a digit and an
\* upper-case letter
UserSignupValid(v) ==
    /\ PasswordLen(v) >= 8 /\ PasswordLen(v) <= 100
    /\ HasDigitAndUpper(v)

\* UserLogin: password of 1 to 100 characters
UserLoginValid(v) == PasswordLen(v) >= 1 /\ PasswordLen(v) <= 100

\* a digest of the whole password
WholeSecret(v) == v

\* bcrypt uses the first 72 bytes of the password and ignores the rest
BcryptSecret(v) == IF v \in {"Aa1*72+x", "Aa1*72+y"} THEN "Aa1*72" ELSE v

\* hash_password: pwd_context.hash(password), the bcrypt digest (the salt,
\* which plays no part in verification, is left out)
hash_password(password) == [scheme |-> "bcrypt", digest |-> BcryptSecret(password)]

\* verify_password: pwd_context.verify(plain_password, hashed_password)
verify_password(plain_password, hashed_password) ==
    hash_password(plain_password).digest = hashed_password.digest

\* TokenResponse(access_token=..., token_type="bearer")
TokenResponse(token) == [access_token |-> token, token_type |-> "bearer"]

(***************************************************************************)
(* Requests                                                                *)
(***************************************************************************)
Ops == {"list", "create", "delete", "stats"}

FirstPc(op) ==
    CASE op = "list"   -> "get_cache"
      [] op = "create" -> "create_user"
      [] op = "delete" -> "delete_query"
      [] op = "stats"  -> "stats_count"

\* a slot that runs no request
IdleReq ==
    [op |-> "idle", pc |-> "idle", auth |-> "ok", token_uid |-> 0, claimed |-> 0,
     user_id |-> 0, post_id |-> 0, email |-> 0, password |-> "",
     text |-> "", loc |-> <<>>, found |-> "", hit |-> FALSE, resp |-> NoResp,
     eff |-> {}, seen0 |-> {}, gone0 |-> {}]

\* no request completed in the last step
NoOut == IdleReq

InFlight(r) == req[r].pc # "idle"

\* the request of slot r with one more effect on the repository or the cache
Did(r, e) == [req[r] EXCEPT !.eff = @ \cup {e}]

\* the request of slot r moves on as `me`
Continue(r, me) ==
    /\ req' = [req EXCEPT ![r] = me]
    /\ out' = NoOut
    /\ UNCHANGED orphaned

\* a raise that reports the failure of a repository call and runs the
\* failed statement again
ReturnOrRetry(r, me, x) ==
    /\ req' = [req EXCEPT ![r] = IF x.status = 500 /\ x.detail[2] = "db"
                                  THEN me ELSE IdleReq]
    /\ out' = [me EXCEPT !.pc = "done", !.resp = x]
    /\ UNCHANGED orphaned

\* the request of slot r, now `me`, ends with response x; the slot is free
Return(r, me, x) ==
    /\ req' = [req EXCEPT ![r] = IdleReq]
    /\ out' = [me EXCEPT !.pc = "done", !.resp = x]
    /\ orphaned' = IF "db_write" \in me.eff /\ "invalidate" \notin me.eff
                   THEN orphaned \cup {me.user_id} ELSE orphaned

\* User rows: id, email (the sub claim of the account's tokens)
User(id) == [id |-> id, email |-> id, hashed_password |-> hash_password(AccountPassword)]

\* the state of a fresh process: an empty cache, no request in flight; the
\* database holds the accounts and no post
Start0(n) ==
    /\ users = {User(u) : u \in Users}
    /\ budget = n
    /\ now = 0
    /\ posts = {}
    /\ nextId = 1
    /\ cache = [k \in {} |-> 0]
    /\ lru = <<>>
    /\ req = [r \in Reqs |-> IdleReq]
    /\ out = NoOut
    /\ orphaned = {}
    /\ created201 = {}
    /\ deleted200 = {}
    /\ jwt = NoJwt
    /\ chosen = [u \in Users |-> AccountPassword]

Init == Start0(MaxRequests)

\* time passes
Tick ==
    /\ now < MaxTicks * TickStep
    /\ now' = now + TickStep
    /\ out' = NoOut
    /\ UNCHANGED <<chosen, jwt, users, budget, posts, nextId, cache, lru, req, orphaned,
                   created201, deleted200>>

\* rows that requests in flight may still insert
PendingInserts ==
    Cardinality({r \in Reqs : req[r].pc \in {"create_user", "create_commit"}})

\* an endpoint that takes the owner id the client wrote into its request
ClientUserId(a, claimed) == IF claimed # 0 THEN claimed ELSE a.user_id

\* current_user_id: int = Depends(get_current_user_id): the owner id the
\* endpoint hands to the service; PostCreate declares no field but text, and
\* a user_id that the client adds to the body or the query is ignored
current_user_id(a, claimed) == a.user_id

\* A request arrives and takes the first free slot (the requests that
\* arrive are drawn from the operations, credentials and texts given, and
\* from the owner ids a client may write into its request, 0 for none): the
\* dependencies of the endpoint run (get_current_user_id on the bearer
\* credential) and the body is validated (PostCreate); when the dependencies
\* raise (401, 403) or the body is invalid (422), the request ends there and
\* the endpoint body never runs.
Start(r, ops, credentials, texts, owners) ==
    /\ ~InFlight(r)
    /\ \A q \in Reqs : q < r => InFlight(q)
    /\ budget > 0
    /\ budget' = budget - 1
    /\ \E op \in ops, token \in credentials :
       \E a \in get_current_user_id(token, now) :
       \E pid \in (IF op = "delete" /\ a.ok THEN PostIds ELSE {0}),
          text \in (IF op = "create" /\ a.ok THEN texts ELSE {""}),
          claimed \in (IF a.ok THEN owners ELSE {0}) :
          LET me == [IdleReq EXCEPT
                        !.op = op,
                        !.pc = FirstPc(op),
                        !.auth = CredentialState(token, now),
                        !.token_uid = token.user_id,
                        !.claimed = claimed,
                        !.user_id = current_user_id(a, claimed),
                        !.post_id = pid,
                        !.text = text,
                        !.seen0 = IF op = "list" THEN created201 ELSE {},
                        !.gone0 = IF op = "list" THEN deleted200 ELSE {}]
              invalid == op = "create" /\ a.ok /\ ~PostCreateValid(text)
          IN /\ op = "create" /\ a.ok /\ ~invalid => nextId + PendingInserts <= MaxPosts
             /\ IF ~a.ok THEN Return(r, me, a.exc)
                ELSE IF invalid THEN Return(r, me, RequestValidationError)
                ELSE Continue(r, me)
    /\ UNCHANGED <<chosen, jwt, users, now, posts, nextId, cache, lru, created201, deleted200>>

(***************************************************************************)
(* PostService.get_user_posts                                              *)
(***************************************************************************)
\* cached_posts = cache.get_user_posts(user_id); on a hit the cached list is
\* returned as PostResponse objects
GetCache(r) ==
    /\ req[r].pc = "get_cache"
    /\ LET u == req[r].user_id
           got == CacheGetUserPosts(cache, u, now)
           me == Did(r, "cache_get")
       IN /\ cache' = CacheAfterGet(cache, u, now)
          /\ lru' = LruAfterGet(cache, lru, u, now)
          /\ IF got.hit
             THEN Return(r, [me EXCEPT !.hit = TRUE],
                         Response(200, <<"", "">>,
                             [i \in DOMAIN got.posts |-> PostResponse(got.posts[i])]))
             ELSE Continue(r, [me EXCEPT !.pc = "get_query"])
    /\ UNCHANGED <<chosen, jwt, users, budget, now, posts, nextId, created201, deleted200>>

\* posts = db.query(Post).filter(...).order_by(...).all(), converted to
\* PostResponse; an exception of the database reaches the controller (500)
GetQuery(r) ==
    /\ req[r].pc = "get_query"
    /\ \/ \E rows \in QueryUserPosts(posts, req[r].user_id) :
            Continue(r, [Did(r, "db_read") EXCEPT
                            !.pc = "get_set",
                            !.loc = [i \in DOMAIN rows |-> PostResponse(rows[i])]])
       \/ Return(r, req[r], HTTPException(500, <<"server error listing posts", "db">>))
    /\ UNCHANGED <<chosen, jwt, users, budget, now, posts, nextId, cache, lru, created201, deleted200>>

\* cache.set_user_posts(user_id, posts_dict); return post_responses
GetSet(r) ==
    /\ req[r].pc = "get_set"
    /\ LET u == req[r].user_id IN
       /\ cache' = CacheSetUserPosts(cache, lru, u, model_dump(req[r].loc), now)
       /\ lru' = CacheSetOrder(cache, lru, u, now)
       /\ Return(r, [req[r] EXCEPT !.eff = @ \cup {"cache_set"} \cup
                                  (IF Evicts(cache, u, now) THEN {"cache_evict"} ELSE {}) \cup
                                  (IF Contains(cache, _make_cache_key(u, "posts"), now)
                                   THEN {"cache_overwrite"} ELSE {})],
                 Response(200, <<"", "">>, req[r].loc))
    /\ UNCHANGED <<chosen, jwt, users, budget, now, posts, nextId, created201, deleted200>>

(***************************************************************************)
(* CacheManager.invalidate_user_posts, called by create_post and           *)
(* delete_post inside their try block                                      *)
(***************************************************************************)
\* the response of the service method once the invalidation has returned
Success(r) ==
    IF req[r].op = "create"
    THEN Response(201, <<"", "">>, req[r].loc)
    ELSE Response(200, <<"post deleted", "">>, <<req[r].post_id>>)

\* except Exception as e: db.rollback(); raise HTTPException(500, ...)
ServiceError(r, e) ==
    IF req[r].op = "create"
    THEN HTTPException(500, <<"error creating post", e>>)
    ELSE HTTPException(500, <<"error deleting post", e>>)

\* the client has the success response of its create or delete
Acknowledge(r) ==
    /\ created201' = IF req[r].op = "create"
                     THEN created201 \cup {req[r].post_id} ELSE created201
    /\ deleted200' = IF req[r].op = "delete"
                     THEN deleted200 \cup {req[r].post_id} ELSE deleted200

\* if cache_key in posts_cache: ... else: (nothing to delete)
InvalidateCheck(r) ==
    /\ req[r].pc = "invalidate_check"
    /\ LET key == _make_cache_key(req[r].user_id, "posts") IN
       IF Contains(cache, key, now)
       THEN /\ Continue(r, [req[r] EXCEPT !.pc = "invalidate_del"])
            /\ UNCHANGED <<created201, deleted200>>
       ELSE /\ Return(r, Did(r, "invalidate"), Success(r))
            /\ Acknowledge(r)
    /\ UNCHANGED <<chosen, jwt, users, budget, now, posts, nextId, cache, lru>>

\* del posts_cache[cache_key]: a KeyError (the entry has expired or has been
\* removed since the check) is caught by the service's except Exception
InvalidateDel(r) ==
    /\ req[r].pc = "invalidate_del"
    /\ LET key == _make_cache_key(req[r].user_id, "posts") IN
       /\ cache' = CacheDel(cache, key)
       /\ lru' = RemoveKey(lru, key)
       /\ IF Contains(cache, key, now)
          THEN /\ Return(r, [Did(r, "invalidate") EXCEPT !.eff = @ \cup {"cache_del"}],
                         Success(r))
               /\ Acknowledge(r)
          ELSE /\ Return(r, Did(r, "invalidate"), ServiceError(r, "KeyError"))
               /\ UNCHANGED <<created201, deleted200>>
    /\ UNCHANGED <<chosen, jwt, users, budget, now, posts, nextId>>

(***************************************************************************)
(* PostService.create_post                                                 *)
(***************************************************************************)
\* a lookup that ignores the id
QueryAnyUser(table, uid) == table

\* db.query(User).filter(User.id == user_id).first()
QueryUser(table, uid) == {u \in table : u.id = uid}

\* user = db.query(User).filter(User.id == user_id).first(); 404 if none
CreateUser(r) ==
    /\ req[r].pc = "create_user"
    /\ \/ IF QueryUser(users, req[r].user_id) # {}
          THEN Continue(r, [Did(r, "db_read") EXCEPT !.pc = "create_commit"])
          ELSE Return(r, Did(r, "db_read"), HTTPException(404, <<"user not found", "">>))
       \/ Return(r, req[r], HTTPException(500, <<"server error creating post", "db">>))
    /\ UNCHANGED <<chosen, jwt, users, budget, now, posts, nextId, cache, lru, created201, deleted200>>

\* db.add(new_post); db.commit(): the row is inserted, or the commit fails
\* and the except branch rolls back and raises 500
CreateCommit(r) ==
    /\ req[r].pc = "create_commit"
    /\ \/ /\ posts' = posts \cup {Post(nextId, req[r].text, req[r].user_id, now)}
          /\ nextId' = nextId + 1
          /\ Continue(r, [Did(r, "db_write") EXCEPT
                             !.pc = "create_refresh", !.post_id = nextId])
       \/ /\ Return(r, req[r], ServiceError(r, "db"))
          /\ UNCHANGED <<posts, nextId>>
    /\ UNCHANGED <<chosen, jwt, users, budget, now, cache, lru, created201, deleted200>>

\* db.refresh(new_post): reloads the row; it raises when the database fails
\* or the row is gone, and the except branch raises 500 without having
\* called cache.invalidate_user_posts
CreateRefresh(r) ==
    /\ req[r].pc = "create_refresh"
    /\ \/ \E row \in QueryPost(posts, req[r].post_id, req[r].user_id) :
            Continue(r, [Did(r, "db_read") EXCEPT
                            !.pc = "invalidate_check", !.loc = <<PostResponse(row)>>])
       \/ Return(r, req[r], ServiceError(r, "db"))
    /\ UNCHANGED <<chosen, jwt, users, budget, now, posts, nextId, cache, lru, created201, deleted200>>

(***************************************************************************)
(* PostService.delete_post                                                 *)
(***************************************************************************)
\* why the lookup of (post_id, user_id) finds no row
NotFoundCause(table, pid) ==
    IF \E p \in table : p.id = pid THEN "foreign" ELSE "missing"

\* a response that tells a foreign post from a missing one
DeleteForbidden(cause) ==
    IF cause = "foreign"
    THEN HTTPException(403, <<"post belongs to another user", "">>)
    ELSE HTTPException(404, <<"post not found", "">>)

\* raise HTTPException(404, "post not found or it does not belong to you")
DeleteNotFound(cause) == HTTPException(404, <<"post not found or not yours", "">>)

\* post = db.query(Post).filter(Post.id == post_id, Post.user_id == user_id).first()
DeleteQuery(r) ==
    /\ req[r].pc = "delete_query"
    /\ \/ IF QueryPost(posts, req[r].post_id, req[r].user_id) # {}
          THEN Continue(r, [Did(r, "db_read") EXCEPT !.pc = "delete_commit"])
          ELSE Return(r, [Did(r, "db_read") EXCEPT
                            !.found = NotFoundCause(posts, req[r].post_id)],
                      DeleteNotFound(NotFoundCause(posts, req[r].post_id)))
       \/ Return(r, req[r], HTTPException(500, <<"server error deleting post", "db">>))
    /\ UNCHANGED <<chosen, jwt, users, budget, now, posts, nextId, cache, lru, created201, deleted200>>

\* db.delete(post); db.commit(): the DELETE removes the row with the primary
\* key of the object loaded by the query; when another request has removed
\* the row since, it matches no row, which the mapper (confirm_deleted_rows,
\* no version_id_col) reports with a warning, and the commit succeeds. The
\* commit raises when the database fails, and the except branch rolls back
\* and raises 500.
DeleteCommit(r) ==
    /\ req[r].pc = "delete_commit"
    /\ \/ /\ posts' = posts \ QueryPost(posts, req[r].post_id, req[r].user_id)
          /\ Continue(r, [Did(r, "db_write") EXCEPT !.pc = "invalidate_check"])
       \/ /\ Return(r, req[r], ServiceError(r, "db"))
          /\ UNCHANGED posts
    /\ UNCHANGED <<chosen, jwt, users, budget, now, nextId, cache, lru, created201, deleted200>>

(***************************************************************************)
(* PostService.get_post_stats                                              *)
(***************************************************************************)
\* a count that empties the cache
CacheClearedByLen(c, t) == {[k \in {} |-> 0]}

\* len(posts_cache) -> TTLCache.__len__: the cache after the count; cachetools
\* 5 drops the expired entries before it counts, cachetools 4 counts the
\* entries that have not expired and drops nothing
CacheAfterLen(c, t) == {c, Expire(c, t)}

\* a size that counts the entries physically present, expired or not
CacheInfoOfAllKeys(c, t) ==
    [size |-> Cardinality(DOMAIN c), maxsize |-> MaxCacheSize, ttl |-> TTL]

\* CacheManager.get_cache_info
get_cache_info(c, t) == [size |-> CacheLen(c, t), maxsize |-> MaxCacheSize, ttl |-> TTL]

\* a count taken from the cached listing of the owner when there is one
CountCachedPosts(table, uid) ==
    LET key == _make_cache_key(uid, "posts") IN
    IF Contains(cache, key, now) THEN Len(cache[key].posts)
    ELSE Cardinality(PostsOf(table, uid))

\* db.query(Post).filter(Post.user_id == user_id).count()
CountUserPosts(table, uid) == Cardinality(PostsOf(table, uid))

\* total_posts = db.query(Post).filter(Post.user_id == user_id).count()
StatsCount(r) ==
    /\ req[r].pc = "stats_count"
    /\ \/ Continue(r, [Did(r, "db_read") EXCEPT
                          !.pc = "stats_info",
                          !.loc = <<CountUserPosts(posts, req[r].user_id)>>])
       \/ Return(r, req[r], HTTPException(500, <<"server error reading stats", "db">>))
    /\ UNCHANGED <<chosen, jwt, users, budget, now, posts, nextId, cache, lru, created201, deleted200>>

\* return {"user_id", "total_posts", "cache_info": cache.get_cache_info()}
StatsInfo(r) ==
    /\ req[r].pc = "stats_info"
    /\ Return(r, Did(r, "cache_info"),
              Response(200, <<"", "">>,
                  <<[user_id |-> req[r].user_id,
                     total_posts |-> req[r].loc[1],
                     cache_info |-> get_cache_info(cache, now)]>>))
    /\ \E c2 \in CacheAfterLen(cache, now) :
          /\ cache' = c2
          /\ lru' = SelectSeq(lru, LAMBDA k : k \in DOMAIN c2)
    /\ UNCHANGED <<chosen, jwt, users, budget, now, posts, nextId, created201, deleted200>>

(***************************************************************************)
(* UserService and the /auth endpoints                                     *)
(***************************************************************************)
\* signup and login touch neither posts nor cache nor clock
AuthFrame ==
    UNCHANGED <<jwt, now, posts, nextId, cache, lru, created201, deleted200>>

\* POST /auth/signup or /auth/login arrives and takes the first free slot; the
\* body is validated (UserSignup, UserLogin) and 422 ends the request
StartAuth(r, ops, emails, passwords) ==
    /\ ~InFlight(r)
    /\ \A q \in Reqs : q < r => InFlight(q)
    /\ budget > 0
    /\ budget' = budget - 1
    /\ \E op \in ops, e \in emails, p \in passwords :
          LET me == [IdleReq EXCEPT
                        !.op = op,
                        !.pc = IF op = "signup" THEN "signup_query" ELSE "login",
                        !.email = EmailStr(e),
                        !.password = p]
              valid == IF op = "signup" THEN UserSignupValid(p) ELSE UserLoginValid(p)
          IN IF valid THEN Continue(r, me)
             ELSE Return(r, me, RequestValidationError)
    /\ UNCHANGED <<users, chosen>>
    /\ AuthFrame

\* db.query(User).filter(User.email == email).first()
QueryUserByEmail(table, email) == {u \in table : u.email = email}

\* a users table without the unique index on email
NoUniqueIndex(table, email) == FALSE

\* email = Column(String(255), unique=True, ...): the insert of a second row
\* with the email raises IntegrityError
UniqueViolation(table, email) == \E u \in table : u.email = email

\* the autoincrement primary key of the next row of the users table
NextUserId(table) == Cardinality(table) + 1

\* existing_user = db.query(User).filter(User.email == user_data.email).first();
\* 400 when there is one
SignupQuery(r) ==
    /\ req[r].pc = "signup_query"
    /\ \/ IF QueryUserByEmail(users, req[r].email) # {}
          THEN Return(r, Did(r, "db_read"),
                      HTTPException(400, <<"user with this email already exists", "">>))
          ELSE Continue(r, [Did(r, "db_read") EXCEPT !.pc = "signup_commit"])
       \/ Return(r, req[r], HTTPException(500, <<"server error signing up", "db">>))
    /\ UNCHANGED <<users, chosen>>
    /\ UNCHANGED budget
    /\ AuthFrame

\* new_user = User(email, hash_password(password)); db.add; db.commit(): the row
\* is inserted; IntegrityError is answered 400 after a rollback, any other
\* exception reaches the controller (500)
SignupCommit(r) ==
    /\ req[r].pc = "signup_commit"
    /\ \/ IF UniqueViolation(users, req[r].email)
          THEN /\ Return(r, req[r],
                      HTTPException(400, <<"error creating user: email already exists", "">>))
               /\ UNCHANGED <<users, chosen>>
          ELSE /\ users' = users \cup
                     {[id |-> NextUserId(users), email |-> req[r].email,
                       hashed_password |-> hash_password(req[r].password)]}
               /\ chosen' = [id \in DOMAIN chosen \cup {NextUserId(users)} |->
                               IF id = NextUserId(users) THEN req[r].password
                               ELSE chosen[id]]
               /\ Continue(r, [Did(r, "db_write") EXCEPT
                                  !.pc = "signup_refresh",
                                  !.user_id = NextUserId(users)])
       \/ /\ Return(r, req[r], HTTPException(500, <<"server error signing up", "db">>))
          /\ UNCHANGED <<users, chosen>>
    /\ UNCHANGED budget
    /\ AuthFrame

\* db.refresh(new_user); then signup logs the new account in:
\* UserLogin(email=user.email, password=user_data.password)
SignupRefresh(r) ==
    /\ req[r].pc = "signup_refresh"
    /\ \/ \E u \in QueryUser(users, req[r].user_id) :
            Continue(r, [Did(r, "db_read") EXCEPT !.pc = "login", !.email = u.email])
       \/ Return(r, req[r], HTTPException(500, <<"server error signing up", "db">>))
    /\ UNCHANGED <<users, chosen>>
    /\ UNCHANGED budget
    /\ AuthFrame

\* raise HTTPException(401, "wrong email or password"), for an email without
\* account and for a password that does not verify alike
LoginRefused == HTTPException(401, <<"wrong email or password", "">>)

\* UserService.authenticate_user: the account of the email, the check of the
\* password against its digest, and the token for its email and id
authenticate_user(table, email, password, t) ==
    IF QueryUserByEmail(table, email) = {}
    THEN {LoginRefused}
    ELSE {IF verify_password(password, u.hashed_password)
          THEN Response(200, <<"", "">>,
                        <<TokenResponse(create_access_token(u.email, u.id, t))>>)
          ELSE LoginRefused : u \in QueryUserByEmail(table, email)}

\* token = UserService.authenticate_user(db, login_data); return token (the
\* status of signup is 201)
AuthenticateUser(r) ==
    /\ req[r].pc = "login"
    /\ \/ \E x \in authenticate_user(users, req[r].email, req[r].password, now) :
            Return(r, Did(r, "db_read"),
                   IF x.status = 200 /\ req[r].op = "signup"
                   THEN [x EXCEPT !.status = 201] ELSE x)
       \/ Return(r, req[r], HTTPException(500, <<"server error logging in", "db">>))
    /\ UNCHANGED <<users, chosen>>
    /\ UNCHANGED budget
    /\ AuthFrame

\* a signup or login in flight takes its next step
StepAuth ==
    \/ \E r \in Reqs : SignupQuery(r)
    \/ \E r \in Reqs : SignupCommit(r)
    \/ \E r \in Reqs : SignupRefresh(r)
    \/ \E r \in Reqs : AuthenticateUser(r)

(***************************************************************************)
(* Specifications                                                          *)
(***************************************************************************)
\* a request in flight takes its next step
Step ==
    \/ \E r \in Reqs : GetCache(r)
    \/ \E r \in Reqs : GetQuery(r)
    \/ \E r \in Reqs : GetSet(r)
    \/ \E r \in Reqs : CreateUser(r)
    \/ \E r \in Reqs : CreateCommit(r)
    \/ \E r \in Reqs : CreateRefresh(r)
    \/ \E r \in Reqs : DeleteQuery(r)
    \/ \E r \in Reqs : DeleteCommit(r)
    \/ \E r \in Reqs : InvalidateCheck(r)
    \/ \E r \in Reqs : InvalidateDel(r)

StepStats ==
    \/ \E r \in Reqs : StatsCount(r)
    \/ \E r \in Reqs : StatsInfo(r)

\* listPosts, createPost and deletePost requests of the accounts overlap: any
\* request in flight takes its next step
Next ==
    \/ Tick
    \/ \E r \in Reqs : Start(r, Ops \ {"stats"}, AccountTokens(now), {"a"}, {0})
    \/ Step

Spec == Init /\ [][Next]_vars

\* requests do not overlap: a request arrives when no other is in flight
InitSeq == Start0(MaxSeqRequests)

NextSeq ==
    \/ Tick
    \/ \E r \in Reqs : (\A q \in Reqs : ~InFlight(q))
                       /\ Start(r, Ops, Credentials(now), Texts \cup {"", "A*1048577"}, {0})
    \/ Step
    \/ StepStats

SpecSeq == InitSeq /\ [][NextSeq]_vars

\* overlapping requests with every kind of credential
InitAuth == Start0(MaxAuthRequests)

NextAuth ==
    \/ Tick
    \/ \E r \in Reqs : Start(r, Ops, Credentials(now), Texts \cup LimitTexts, {0})
    \/ Step
    \/ StepStats

SpecAuth == InitAuth /\ [][NextAuth]_vars

(***************************************************************************)
(* Ageing of cache entries: requests that do not overlap, on a clock that  *)
(* advances by half a TTL                                                  *)
(***************************************************************************)
HalfTick ==
    /\ now < MaxHalfTicks * (TTL \div 2)
    /\ now' = now + TTL \div 2
    /\ out' = NoOut
    /\ UNCHANGED <<chosen, jwt, users, budget, posts, nextId, cache, lru, req, orphaned,
                   created201, deleted200>>

InitTTL == Start0(MaxTtlRequests)

NextTTL ==
    \/ HalfTick
    \/ \E r \in Reqs : (\A q \in Reqs : ~InFlight(q))
                       /\ Start(r, Ops \ {"stats"}, AccountTokens(now), {"a"}, {0})
    \/ Step

SpecTTL == InitTTL /\ [][NextTTL]_vars

\* requests of the accounts, one at a time, in which the client may write
\* an owner id of its choice into the body or the query
InitOwner == Start0(MaxOwnerRequests)

NextOwner ==
    \/ \E r \in Reqs : (\A q \in Reqs : ~InFlight(q))
                       /\ Start(r, Ops, AccountTokens(now), {"a"}, {0} \cup Users)
    \/ Step
    \/ StepStats

SpecOwner == InitOwner /\ [][NextOwner]_vars

\* signups overlap: for the addresses of an account and of no account, in
\* both spellings
InitSignup == Start0(MaxSignupRequests)

NextSignup ==
    \/ \E r \in Reqs : StartAuth(r, {"signup"}, {1, 3, 4}, {"Passw0rd1", "pass"})
    \/ StepAuth

SpecSignup == InitSignup /\ [][NextSignup]_vars

\* signups and logins, one at a time, with every address and password
InitLogin == Start0(MaxLoginRequests)

NextLogin ==
    \/ \E r \in Reqs : (\A q \in Reqs : ~InFlight(q))
                       /\ StartAuth(r, {"signup", "login"}, Emails, Passwords)
    \/ StepAuth

SpecLogin == InitLogin /\ [][NextLogin]_vars

\* listPosts and createPost requests of the accounts overlap while the clock
\* advances by half TTLs: a set may find the entry another listPosts stored
InitOverwrite == Start0(MaxOverwriteRequests)

NextOverwrite ==
    \/ HalfTick
    \/ \E r \in Reqs : Start(r, {"list", "create"}, AccountTokens(now), {"a"}, {0})
    \/ \E r \in Reqs : GetCache(r)
    \/ \E r \in Reqs : GetQuery(r)
    \/ \E r \in Reqs : GetSet(r)
    \/ \E r \in Reqs : CreateUser(r)
    \/ \E r \in Reqs : CreateCommit(r)
    \/ \E r \in Reqs : CreateRefresh(r)
    \/ \E r \in Reqs : InvalidateCheck(r)
    \/ \E r \in Reqs : InvalidateDel(r)

SpecOverwrite == InitOverwrite /\ [][NextOverwrite]_vars

\* listPosts requests, one at a time, for every owner id that a token carries
\* (one more than the cache holds), while the clock advances by half TTLs
InitEvict == Start0(MaxEvictRequests)

NextEvict ==
    \/ HalfTick
    \/ \E r \in Reqs : (\A q \in Reqs : ~InFlight(q))
                       /\ Start(r, {"list"}, {create_access_token(u, u, now) : u \in TokenUsers},
                                {"a"}, {0})
    \/ \E r \in Reqs : GetCache(r)
    \/ \E r \in Reqs : GetQuery(r)
    \/ \E r \in Reqs : GetSet(r)

SpecEvict == InitEvict /\ [][NextEvict]_vars

(***************************************************************************)
(* Tokens: issue (create_access_token), tampering by the client, and       *)
(* verify_token, on a clock of seconds                                     *)
(***************************************************************************)
\* lifetimes a token is issued with (timedelta, in seconds): a negative one,
\* the default (None or a zero timedelta), 1 s, 2 s
ExpiresDeltas == {-1, 0, 1, 2}

\* everything but the clock and the token is as at process start
TokenFrame ==
    UNCHANGED <<users, chosen, budget, posts, nextId, cache, lru, req, out, orphaned,
                created201, deleted200>>

\* create_access_token(data, expires_delta): data holds sub and user_id, or
\* lacks one of them (0)
IssueToken ==
    /\ jwt.state = "none"
    /\ \E sub \in {0, 1}, uid \in {0} \cup Users, d \in ExpiresDeltas :
          jwt' = [NoJwt EXCEPT !.token = create_access_token_in(sub, uid, d, now),
                               !.iat = now, !.delta = d, !.state = "held"]
    /\ UNCHANGED now
    /\ TokenFrame

\* the client alters the token it holds: the signature no longer matches,
\* or what is left is no JWT
TamperToken ==
    /\ jwt.state = "held"
    /\ jwt.token.kind = "jwt" /\ jwt.token.sig
    /\ \/ jwt' = [jwt EXCEPT !.token.sig = FALSE]
       \/ jwt' = [jwt EXCEPT !.token.kind = "malformed"]
    /\ UNCHANGED now
    /\ TokenFrame

\* a second passes
Second ==
    /\ now < MaxSeconds
    /\ now' = now + 1
    /\ UNCHANGED jwt
    /\ TokenFrame

\* verify_token(token) at the current time
VerifyToken ==
    /\ jwt.state = "held"
    /\ LET v == verify_token(jwt.token, now) IN
       jwt' = [jwt EXCEPT !.state = "verified", !.at = now, !.ok = v.ok,
                          !.user_id = v.user_id, !.exc = v.exc]
    /\ UNCHANGED now
    /\ TokenFrame

\* optional_authentication on the credential of the request: the token held,
\* or none
OptionalAuthentication ==
    /\ jwt.state \in {"none", "held"}
    /\ LET v == optional_authentication(jwt.token, now) IN
       jwt' = [jwt EXCEPT !.state = "optional", !.at = now, !.ok = v.ok,
                          !.user_id = v.user_id, !.exc = v.exc]
    /\ UNCHANGED now
    /\ TokenFrame

\* the client drops the token
DropToken ==
    /\ jwt.state \in {"verified", "optional"}
    /\ jwt' = NoJwt
    /\ UNCHANGED now
    /\ TokenFrame

InitToken == Start0(0)

NextToken ==
    \/ IssueToken \/ TamperToken \/ Second \/ VerifyToken
    \/ OptionalAuthentication \/ DropToken

SpecToken == InitToken /\ [][NextToken]_vars

(***************************************************************************)
(* Properties                                                              *)
(***************************************************************************)
\* the ids of a list of posts
Ids(seq) == {seq[i].id : i \in DOMAIN seq}

\* what the repository may currently return for the posts of owner u, in
\* the form the cache stores it
Listings(u) ==
    {model_dump([i \in DOMAIN rows |-> PostResponse(rows[i])]) :
        rows \in QueryUserPosts(posts, u)}

\* a create or delete for owner u has committed and its invalidation has not
\* completed: the request is between the two, or it ended without invalidating
InWindow(u) ==
    \/ u \in orphaned
    \/ \E r \in Reqs : /\ req[r].user_id = u
                       /\ "db_write" \in req[r].eff
                       /\ "invalidate" \notin req[r].eff

C4_NoCrossOwnerRead ==
    /\ \A u \in Users : \A key \in DOMAIN cache :
          key = _make_cache_key(u, "posts") =>
             \A i \in DOMAIN cache[key].posts : cache[key].posts[i].user_id = u
    /\ \A key \in DOMAIN cache : \E u \in Users : key = _make_cache_key(u, "posts")
    /\ out.op = "list" /\ out.resp.status = 200 =>
          \A i \in DOMAIN out.resp.body : out.resp.body[i].user_id = out.user_id

\* C4 witness: a listing that has been cached returns the owner's post
\* while the other owner has a post and is caching its own listing
C4_Witness ==
    /\ out.op = "list" /\ "cache_set" \in out.eff /\ out.resp.body # <<>>
    /\ \E r \in Reqs : /\ req[r].pc = "get_set" /\ req[r].loc # <<>>
                       /\ req[r].user_id # out.user_id

\* C5: whenever createPost or deletePost has committed its change to the
\* repository, invalidate(owner) is executed before the request ends, also
\* when a later step of the same request fails.
C5_InvalidateAfterCommit ==
    out.op \in {"create", "delete"} /\ "db_write" \in out.eff => "invalidate" \in out.eff

\* C6: a cached snapshot is served only while less than TTL has elapsed
\* since the set that stored it (a stale snapshot is not served beyond that);
\* a listPosts that finds the entry at or past its TTL misses, reads the
\* repository and returns its current listing.
C6_StalenessBoundedByTTL ==
    [][\A r \in Reqs :
        LET key == _make_cache_key(req[r].user_id, "posts") IN
        /\ req[r].pc = "get_cache" /\ req'[r] # req[r] =>
              /\ out'.hit =>
                    /\ key \in DOMAIN cache
                    /\ now < cache[key].cached_at + TTL
                    /\ model_dump(out'.resp.body) = cache[key].posts
              /\ key \in DOMAIN cache /\ now >= cache[key].cached_at + TTL =>
                    ~out'.hit /\ req'[r].pc = "get_query"
        /\ req[r].pc = "get_query" /\ req'[r].pc = "get_set" =>
              model_dump(req'[r].loc) \in Listings(req[r].user_id)
      ]_vars

\* C6 witness: a stale snapshot has passed its TTL and the listPosts that
\* found it has read the repository's current listing instead
C6_Witness ==
    \E r \in Reqs :
        LET key == _make_cache_key(req[r].user_id, "posts") IN
        /\ req[r].pc = "get_set"
        /\ key \in DOMAIN cache
        /\ now >= cache[key].cached_at + TTL
        /\ cache[key].posts \notin Listings(req[r].user_id)
        /\ model_dump(req[r].loc) \in Listings(req[r].user_id)

\* C7: when requests do not overlap, every listPosts(O) returns exactly the
\* posts of O that are in the repository, each exactly once, with their text
\* and owner id, whether served from the cache or from the repository.
C7_SequentialListIsExact ==
    out.op = "list" /\ out.resp.status = 200 =>
        /\ Range(out.resp.body) = {PostResponse(p) : p \in PostsOf(posts, out.user_id)}
        /\ Len(out.resp.body) = Cardinality(PostsOf(posts, out.user_id))

\* the repository call of the step that produced response x failed
RepositoryFailed(x) == x.status = 500 /\ x.detail[2] = "db"

\* the post that request r asks to delete exists and belongs to another owner
ForeignTarget(r) ==
    /\ req[r].op = "delete"
    /\ \E p \in posts : p.id = req[r].post_id /\ p.user_id # req[r].user_id

\* C8: deletePost(p, O2) where p belongs to another owner O1 fails with
\* PostNotFoundOrNotOwned (404) once its lookup has run, removes no post,
\* leaves O1's post list unchanged and invalidates no cache entry.
C8_ForeignDeleteRejected ==
    [][\A r \in Reqs :
        ForeignTarget(r) /\ req'[r] # req[r] =>
            /\ posts' = posts
            /\ cache' = cache
            /\ lru' = lru
            /\ req'[r] = IdleReq
            /\ out'.op = "delete" /\ out'.post_id = req[r].post_id
            /\ out'.eff \subseteq {"db_read"}
            /\ \/ RepositoryFailed(out'.resp)
               \/ out'.resp.status = 404 /\ out'.eff = {"db_read"}
      ]_vars

\* C8 witness: a delete of another owner's post has been refused while that
\* owner's listing is cached; the post and the cache entry are still there
C8_Witness ==
    /\ out.op = "delete" /\ out.resp.status = 404
    /\ \E p \in posts :
          /\ p.id = out.post_id /\ p.user_id # out.user_id
          /\ Contains(cache, _make_cache_key(p.user_id, "posts"), now)

\* C9: the outcome of deletePost(p, O) is the same when p does not exist and
\* when p belongs to another owner: the response is the one given for a
\* missing post, and the request has done nothing but its lookup.
C9_NotFoundIndistinguishable ==
    out.op = "delete" /\ out.found \in {"missing", "foreign"} =>
        /\ out.resp = DeleteNotFound("missing")
        /\ out.resp = DeleteNotFound("foreign")
        /\ out.eff = {"db_read"}
        /\ out.found = NotFoundCause(posts, out.post_id)

\* C9 witness: a delete of a post that exists and belongs to another owner
\* has been answered
C9_Witness ==
    /\ out.op = "delete" /\ out.found = "foreign"
    /\ \E p \in posts : p.id = out.post_id /\ p.user_id # out.user_id

\* C10: a request whose bearer credential is absent, malformed, expired or
\* badly signed ends with 401 and performs no repository read or write and no
\* cache get, set or invalidate.
C10_UnauthorizedTouchesNothing ==
    out.pc = "done" /\ out.auth # "ok" =>
        /\ out.resp.status = 401
        /\ out.eff = {}

\* C11: verify(token) returns a claim if and only if the signature validates,
\* the encoding is well formed, expires-at has not passed at verification time
\* and both subject and owner id are present; in every other case it fails
\* with 401; a token issued with a 1-second expiry fails 2 seconds later.
C11_VerifyIffValid ==
    jwt.state = "verified" =>
        /\ jwt.ok <=> /\ jwt.token.kind = "jwt"
                      /\ jwt.token.sig
                      /\ jwt.at <= jwt.token.exp
                      /\ jwt.token.sub # 0
                      /\ jwt.token.user_id # 0
        /\ jwt.ok => jwt.user_id = jwt.token.user_id /\ jwt.exc = NoResp
        /\ ~jwt.ok => jwt.exc.status = 401
        /\ jwt.delta = 1 /\ jwt.at >= jwt.iat + 2 => ~jwt.ok

\* C11 witness: an untampered token with both claims, issued with a 1-second
\* expiry, has been refused 2 seconds after it was issued
C11_Witness ==
    /\ jwt.state = "verified" /\ ~jwt.ok
    /\ jwt.token.kind = "jwt" /\ jwt.token.sig
    /\ jwt.token.sub # 0 /\ jwt.token.user_id # 0
    /\ jwt.delta = 1 /\ jwt.at = jwt.iat + 2

\* C12: createPost accepts a text if and only if it is non-empty and its
\* UTF-8 byte length is at most 1,048,576: a text in the service was within
\* the limit, and a text is refused (422) only if it was empty or beyond it.
C12_TextAcceptedIffWithinLimit ==
    /\ \A r \in Reqs :
          req[r].op = "create" =>
              StrLen(req[r].text) >= 1 /\ Utf8Len(req[r].text) <= 1048576
    /\ out.op = "create" /\ out.auth = "ok" /\ out.resp.status = 422 =>
          StrLen(out.text) = 0 \/ Utf8Len(out.text) > 1048576

\* the text is empty or oversized
EmptyOrOversized(v) == StrLen(v) = 0 \/ Utf8Len(v) > 1048576

\* C13: a createPost rejected by input validation (empty or oversized text)
\* makes no repository call: the step that rejects it leaves the posts table
\* and every cache entry as they were, and the request has done nothing; an
\* empty or oversized text never reaches the service.
C13_RejectedCreateTouchesNothing ==
    [][/\ out'.op = "create" /\ out'.resp.status = 422 =>
            /\ out'.eff = {}
            /\ posts' = posts /\ nextId' = nextId
            /\ cache' = cache /\ lru' = lru
       /\ \A r \in Reqs :
            req'[r].op = "create" => ~EmptyOrOversized(req'[r].text)
      ]_vars

\* C13 witness: a text of 1,048,577 bytes has been rejected while its owner
\* has a post in the repository and a cached listing
C13_Witness ==
    /\ out.op = "create" /\ out.resp.status = 422 /\ out.text = "A*1048577"
    /\ PostsOf(posts, out.user_id) # {}
    /\ Contains(cache, _make_cache_key(out.user_id, "posts"), now)

\* C14: listPosts(O) returns O's posts ordered by creation time descending,
\* posts of the same creation timestamp by descending id: after createPost(a)
\* then createPost(b) it returns [b, a] even when both have the same timestamp.
C14_ListOrderIsDeterministic ==
    out.op = "list" /\ out.resp.status = 200 =>
        \A i, j \in DOMAIN out.resp.body :
            i < j =>
                \/ out.resp.body[i].created_at > out.resp.body[j].created_at
                \/ /\ out.resp.body[i].created_at = out.resp.body[j].created_at
                   /\ out.resp.body[i].id > out.resp.body[j].id

\* C15: an entry stored by set(O) at time t0 is returned by get(O) while
\* less than TTL has elapsed since t0 and it is still in the cache, and is
\* treated as absent from t0 + TTL on; a get leaves the entry and its expiry
\* as they are, however often it hits; the listPosts that misses goes on to
\* read the repository.
C15_EntryLivesExactlyTTL ==
    [][/\ \A key \in DOMAIN cache : cache[key].expires = cache[key].cached_at + TTL
       /\ \A r \in Reqs :
            LET key == _make_cache_key(req[r].user_id, "posts") IN
            /\ req[r].pc = "get_cache" /\ req'[r] # req[r] =>
                  /\ cache' = cache
                  /\ key \in DOMAIN cache /\ now < cache[key].cached_at + TTL =>
                        /\ out'.hit /\ out'.resp.status = 200
                        /\ model_dump(out'.resp.body) = cache[key].posts
                  /\ key \notin DOMAIN cache \/ now >= cache[key].cached_at + TTL =>
                        /\ out' = NoOut
                        /\ req'[r].pc = "get_query" /\ ~req'[r].hit
            /\ req[r].pc = "get_query" /\ req'[r] # req[r] =>
                  \/ "db_read" \in req'[r].eff
                  \/ RepositoryFailed(out'.resp)
      ]_vars

\* C15 witness: a listPosts has missed on an entry that is still in the
\* cache exactly TTL after its set, and is about to read the repository
C15_Witness ==
    \E r \in Reqs :
        LET key == _make_cache_key(req[r].user_id, "posts") IN
        /\ req[r].pc = "get_query"
        /\ key \in DOMAIN cache
        /\ now = cache[key].cached_at + TTL
        /\ cache[key].cached_at > 0

\* C16: in every reachable state the number of cache entries is at most
\* maxSize; a set for a new owner into a cache that holds maxSize live entries
\* removes exactly one of them, admits the new one and leaves the others.
C16_CacheSizeBounded ==
    /\ [](Cardinality(DOMAIN cache) <= MaxCacheSize)
    /\ [][\A r \in Reqs :
            LET key == _make_cache_key(req[r].user_id, "posts") IN
            /\ req[r].pc = "get_set" /\ req'[r] # req[r]
            /\ key \notin DOMAIN cache
            /\ Cardinality(DOMAIN cache) = MaxCacheSize
            /\ \A k \in DOMAIN cache : now < cache[k].expires
            => /\ Cardinality(DOMAIN cache \ DOMAIN cache') = 1
               /\ DOMAIN cache' \ DOMAIN cache = {key}
               /\ \A k \in DOMAIN cache \cap DOMAIN cache' : cache'[k] = cache[k]
         ]_vars

\* C16 witness: a listPosts has stored its listing for a new owner in a
\* full cache, which evicted an entry; the cache is full again
C16_Witness ==
    /\ out.op = "list" /\ "cache_evict" \in out.eff
    /\ _make_cache_key(out.user_id, "posts") \in DOMAIN cache
    /\ Cardinality(DOMAIN cache) = MaxCacheSize

\* no createPost, deletePost or listPosts takes part in the step: before and
\* after it every slot is free or runs a stats request, and the request it
\* completes, if any, is a stats request
OnlyStats ==
    /\ \A r \in Reqs : req[r].op \in {"idle", "stats"} /\ req'[r].op \in {"idle", "stats"}
    /\ out'.op \in {"idle", "stats"}

\* C17 as stated: with no create, delete or listPosts in between, calling
\* stats(O) any number of times never changes cacheInfo.size (what stats
\* reports) and leaves every cache entry and its TTL as it is.
C17_StatsNeverChangesSize ==
    [][OnlyStats =>
          /\ get_cache_info(cache', now').size = get_cache_info(cache, now).size
          /\ Expire(cache', now') = Expire(cache, now)
      ]_vars

\* C17 amended: with no create, delete or listPosts in between, stats(O)
\* reports the number of entries that have not expired and never adds,
\* removes or replaces an entry that has not expired, nor moves the expiry of
\* one; cacheInfo.size changes between two calls only by entries that reach
\* their TTL in between.
C17_StatsIsReadOnly ==
    [][OnlyStats =>
          /\ Expire(cache', now') = Expire(cache, now')
          /\ out'.op = "stats" /\ out'.resp.status = 200 =>
                /\ out'.resp.body[1].cache_info.size = CacheLen(cache, now)
                /\ out'.resp.body[1].cache_info.size = CacheLen(cache', now')
      ]_vars

\* C17 witness: stats has reported a cache of one entry, which is still
\* there with the expiry its set gave it
C17_Witness ==
    /\ out.op = "stats" /\ out.resp.status = 200
    /\ out.resp.body[1].cache_info.size = 1
    /\ CacheLen(cache, now) = 1
    /\ \A k \in DOMAIN cache : cache[k].expires = cache[k].cached_at + TTL

\* request r is a createPost whose owner id references no account
UnknownOwner(r) ==
    /\ req[r].op = "create"
    /\ \A u \in users : u.id # req[r].user_id

\* C18: createPost for an owner id that references no existing account fails
\* with OwnerNotFound (404) once the lookup of the account has run, inserts no
\* post and leaves every cache entry unchanged; no post has such an owner.
C18_UnknownOwnerRejected ==
    /\ [](\A p \in posts : \E u \in users : u.id = p.user_id)
    /\ [][\A r \in Reqs :
            UnknownOwner(r) /\ req'[r] # req[r] =>
                /\ posts' = posts /\ nextId' = nextId
                /\ cache' = cache /\ lru' = lru
                /\ req'[r] = IdleReq
                /\ out'.op = "create" /\ out'.user_id = req[r].user_id
                /\ out'.eff \subseteq {"db_read"}
                /\ \/ RepositoryFailed(out'.resp)
                   \/ out'.resp.status = 404 /\ out'.eff = {"db_read"}
         ]_vars

\* C18 witness: a createPost for an owner id without account has been
\* answered 404 while a listing is cached under that owner id
C18_Witness ==
    /\ out.op = "create" /\ out.resp.status = 404
    /\ \A u \in users : u.id # out.user_id
    /\ Contains(cache, _make_cache_key(out.user_id, "posts"), now)

\* C19: a createPost, deletePost or listPosts whose repository call fails
\* ends with an error outcome in the step of the failure (no retry), and the
\* failed request has set, overwritten, evicted or invalidated no cache entry.
C19_RepositoryFailureLeavesCache ==
    [][out'.op \in {"create", "delete", "list"} /\ RepositoryFailed(out'.resp) =>
          /\ out'.resp.status = 500 /\ out'.resp.body = <<>>
          /\ cache' = cache /\ lru' = lru
          /\ posts' = posts /\ nextId' = nextId
          /\ out'.eff \cap {"cache_set", "cache_evict", "invalidate"} = {}
          /\ \E r \in Reqs :
                /\ req[r].op = out'.op /\ req[r].user_id = out'.user_id
                /\ req'[r] = IdleReq
                /\ \A q \in Reqs \ {r} : req'[q] = req[q]
      ]_vars

\* C19 witness: a createPost has failed in db.refresh, after its commit,
\* while a listing of its owner is cached
C19_Witness ==
    /\ out.op = "create" /\ RepositoryFailed(out.resp)
    /\ "db_write" \in out.eff
    /\ Contains(cache, _make_cache_key(out.user_id, "posts"), now)

\* the causes for which a token that was presented is refused
TokenFailures == {"malformed", "bad_signature", "expired", "missing_claims"}

\* C20: every token failure cause (bad signature, malformed encoding, expired,
\* missing subject or owner id) ends in one and the same Unauthorized
\* response: 401 with the generic message and no detail of the cause.
C20_UniformUnauthorized ==
    out.pc = "done" /\ out.auth \in TokenFailures =>
        /\ out.resp.status = 401
        /\ out.resp = HTTPException(401, <<"invalid token", "">>)
        /\ \A tok \in Credentials(now) :
              CredentialState(tok, now) \in TokenFailures =>
                  extract_user_id_from_token(tok, now).exc = out.resp

\* C21: authenticateOptional never propagates an error: it returns the owner
\* id that authenticate returns when the credential is valid, and absent when
\* the credential is missing or authenticate would fail.
C21_OptionalNeverFails ==
    jwt.state = "optional" =>
        /\ jwt.exc = NoResp
        /\ \A a \in get_current_user_id(jwt.token, jwt.at) :
              /\ a.ok => jwt.ok /\ jwt.user_id = a.user_id
              /\ ~a.ok => ~jwt.ok /\ jwt.user_id = 0

\* C21 witness: an untampered token that has expired, which authenticate
\* refuses with 401, has been given to the optional authentication
C21_Witness ==
    /\ jwt.state = "optional" /\ ~jwt.ok
    /\ jwt.token.kind = "jwt" /\ jwt.token.sig
    /\ jwt.token.sub # 0 /\ jwt.token.user_id # 0
    /\ jwt.token.exp < jwt.at
    /\ \A a \in get_current_user_id(jwt.token, jwt.at) : a.exc.status = 401

C23_OwnerIsTokenClaim ==
    /\ [](/\ \A r \in Reqs : InFlight(r) =>
                 req[r].auth = "ok" /\ req[r].user_id = req[r].token_uid
          /\ out.op = "list" /\ out.resp.status = 200 =>
                 \A i \in DOMAIN out.resp.body :
                     out.resp.body[i].user_id = out.token_uid
          /\ out.op = "stats" /\ out.resp.status = 200 =>
                 /\ out.resp.body[1].user_id = out.token_uid
                 /\ out.resp.body[1].total_posts =
                        Cardinality(PostsOf(posts, out.token_uid))
          /\ out.op = "create" /\ out.resp.status = 201 =>
                 out.resp.body[1].user_id = out.token_uid)
    /\ [][/\ \A p \in posts' \ posts : \E r \in Reqs :
                 /\ req[r].op = "create" /\ req'[r] # req[r]
                 /\ p.user_id = req[r].token_uid
          /\ \A p \in posts \ posts' : \E r \in Reqs :
                 /\ req[r].op = "delete" /\ req'[r] # req[r]
                 /\ p.user_id = req[r].token_uid /\ p.id = req[r].post_id
          /\ \A p \in posts, q \in posts' : p.id = q.id => q.user_id = p.user_id
        ]_vars

\* C23 witness: a client whose token carries one owner id has written the id
\* of another owner, who has posts, into its list request, and has been
\* answered with its own posts
C23_Witness ==
    /\ out.op = "list" /\ out.resp.status = 200
    /\ out.claimed # 0 /\ out.claimed # out.token_uid
    /\ PostsOf(posts, out.claimed) # {}
    /\ Len(out.resp.body) >= 1

\* C24: after any interleaving of signup requests no two accounts share an
\* email: a signup whose email has an account when it looks the email up or
\* when it commits creates nothing and ends with 400 "already exists".
C24_EmailsAreUnique ==
    /\ [](\A u, v \in users : (u.email = v.email \/ u.id = v.id) => u = v)
    /\ [][/\ Cardinality(users') <= Cardinality(users) + 1
          /\ users \subseteq users'
          /\ \A r \in Reqs :
                /\ req[r].pc \in {"signup_query", "signup_commit"}
                /\ QueryUserByEmail(users, req[r].email) # {}
                /\ req'[r] # req[r]
                => /\ users' = users
                   /\ req'[r] = IdleReq
                   /\ out'.op = "signup" /\ out'.email = req[r].email
                   /\ out'.resp.status = 400 \/ RepositoryFailed(out'.resp)
        ]_vars

\* C24 witness: of two overlapping signups with one new address, in two
\* spellings, the second to commit has been answered 400 by the unique index
C24_Witness ==
    /\ out.op = "signup" /\ out.resp.status = 400
    /\ out.resp.detail[1] = "error creating user: email already exists"
    /\ out.email = 3
    /\ Cardinality(QueryUserByEmail(users, 3)) = 1

\* C25: signup and login return a token only for the account whose email
\* and password were submitted, and the token verifies to that account's id
\* and email; a login with an email that has no account or with a password
\* other than the account's yields no token and one and the same 401.
C25_TokenOnlyForOwnCredentials ==
    out.op \in {"signup", "login"} /\ out.pc = "done" =>
        /\ out.resp.status \in {200, 201} =>
              \E u \in users :
                 /\ u.email = out.email /\ chosen[u.id] = out.password
                 /\ verify_token(out.resp.body[1].access_token, now).ok
                 /\ verify_token(out.resp.body[1].access_token, now).user_id = u.id
                 /\ out.resp.body[1].access_token.sub = u.email
        /\ /\ out.op = "login" /\ "db_read" \in out.eff
           /\ \A u \in users : u.email = out.email => chosen[u.id] # out.password
           => out.resp = LoginRefused

\* the sequences s and t hold the same posts in the same order, whatever
\* the type of their elements (row, response model or dict)
SamePosts(s, t) ==
    /\ Len(s) = Len(t)
    /\ \A i \in DOMAIN s :
          /\ s[i].id = t[i].id /\ s[i].text = t[i].text
          /\ s[i].user_id = t[i].user_id
          /\ s[i].created_at = t[i].created_at
          /\ s[i].updated_at = t[i].updated_at

\* C26: listPosts(O) first calls get(O); on a hit it returns the cached
\* snapshot without a repository query; on a miss it queries the repository
\* once, sets O's entry to exactly the sequence it read and returns it.
C26_ListIsCacheAside ==
    [][\A r \in Reqs : req[r].op = "list" /\ req'[r] # req[r] =>
          LET u   == req[r].user_id
              key == _make_cache_key(u, "posts")
          IN /\ req[r].pc \in {"get_cache", "get_query", "get_set"}
             /\ posts' = posts
             /\ req[r].pc = "get_cache" /\ Contains(cache, key, now) =>
                   /\ req'[r] = IdleReq /\ cache' = cache
                   /\ out'.op = "list" /\ out'.hit /\ out'.resp.status = 200
                   /\ SamePosts(out'.resp.body, cache[key].posts)
                   /\ out'.eff = {"cache_get"}
             /\ req[r].pc = "get_cache" /\ ~Contains(cache, key, now) =>
                   /\ req'[r].pc = "get_query" /\ cache' = cache
                   /\ req'[r].eff = {"cache_get"}
             /\ req[r].pc = "get_query" =>
                   /\ cache' = cache
                   /\ \/ /\ req'[r].pc = "get_set"
                         /\ req'[r].eff = {"cache_get", "db_read"}
                         /\ \E rows \in QueryUserPosts(posts, u) :
                               SamePosts(req'[r].loc, rows)
                      \/ req'[r] = IdleReq /\ RepositoryFailed(out'.resp)
             /\ req[r].pc = "get_set" =>
                   /\ req'[r] = IdleReq
                   /\ out'.op = "list" /\ ~out'.hit /\ out'.resp.status = 200
                   /\ out'.resp.body = req[r].loc
                   /\ Contains(cache', key, now')
                   /\ SamePosts(cache'[key].posts, req[r].loc)
                   /\ out'.eff \ {"cache_evict", "cache_overwrite"} =
                         {"cache_get", "db_read", "cache_set"}
      ]_vars

\* C26 witness: a listPosts has been answered from the cache with a snapshot
\* of at least one post
C26_Witness ==
    /\ out.op = "list" /\ out.hit /\ out.resp.status = 200
    /\ Len(out.resp.body) >= 1
    /\ out.eff = {"cache_get"}

C27_NoEntryAtReturn ==
    [][out'.op = "create" /\ out'.resp.status = 201 =>
          ~Contains(cache', _make_cache_key(out'.user_id, "posts"), now')
      ]_vars

\* C28: an invalidate(O) completes without error and leaves no entry for O,
\* also when another invalidate(O), the expiry or the eviction of O's entry
\* comes between its presence check and its deletion.
C28_InvalidateIsAtomic ==
    [][\A r \in Reqs :
          req[r].pc \in {"invalidate_check", "invalidate_del"} /\ req'[r] = IdleReq =>
              /\ out'.resp.status \in {200, 201}
              /\ ~Contains(cache', _make_cache_key(req[r].user_id, "posts"), now')
      ]_vars

\* C29: invalidate(O) removes O's entry if present and is a no-op, not an
\* error, if absent; invalidating twice equals invalidating once; the entries
\* of the other owners are left as they are.
C29_InvalidateRemovesOnlyOwn ==
    /\ [](\A u \in TokenUsers :
             LET key  == _make_cache_key(u, "posts")
                 once == invalidate_user_posts(cache, u, now)
             IN /\ ~Contains(once, key, now)
                /\ invalidate_user_posts(once, u, now) = once
                /\ ~Contains(cache, key, now) => once = cache
                /\ \A k \in DOMAIN cache \ {key} : k \in DOMAIN once /\ once[k] = cache[k])
    /\ [][\A r \in Reqs :
             LET u   == req[r].user_id
                 key == _make_cache_key(u, "posts")
             IN /\ req[r].pc = "invalidate_check" /\ req'[r] # req[r] =>
                      /\ cache' = cache
                      /\ ~Contains(cache, key, now) =>
                            /\ req'[r] = IdleReq
                            /\ out'.resp.status \in {200, 201}
                            /\ cache' = invalidate_user_posts(cache, u, now)
                /\ /\ req[r].pc = "invalidate_del" /\ req'[r] # req[r]
                   /\ Contains(cache, key, now)
                   => /\ req'[r] = IdleReq
                      /\ out'.resp.status \in {200, 201}
                      /\ cache' = invalidate_user_posts(cache, u, now)
         ]_vars

\* C29 witness: createPost or deletePost has deleted its owner's entry while
\* the entry of another owner was in the cache, and that entry is still there
C29_Witness ==
    /\ out.op \in {"create", "delete"} /\ out.resp.status \in {200, 201}
    /\ "cache_del" \in out.eff
    /\ _make_cache_key(out.user_id, "posts") \notin DOMAIN cache
    /\ \E k \in DOMAIN cache : Contains(cache, k, now)

\* C30: set(O, s) overwrites any existing entry for O and restarts its TTL;
\* until the TTL elapses, an invalidate, an eviction or another set comes, O's
\* entry stays as it was set and a get(O) returns exactly s, same posts in the
\* same order; overwriting does not change the number of entries.
C30_SetOverwritesAndRestartsTTL ==
    [][/\ \A r \in Reqs : req[r].pc = "get_set" /\ req'[r] # req[r] =>
             LET key == _make_cache_key(req[r].user_id, "posts") IN
             /\ key \in DOMAIN cache'
             /\ SamePosts(cache'[key].posts, req[r].loc)
             /\ cache'[key].expires = now + TTL
             /\ Contains(cache, key, now) =>
                   /\ CacheLen(cache', now') = CacheLen(cache, now)
                   /\ \A k \in DOMAIN Expire(cache, now) \ {key} :
                         k \in DOMAIN cache' /\ cache'[k] = cache[k]
       /\ \A r \in Reqs : req[r].pc = "get_cache" /\ req'[r] # req[r] =>
             LET key == _make_cache_key(req[r].user_id, "posts") IN
             key \in DOMAIN cache /\ now < cache[key].expires =>
                 /\ out'.hit /\ out'.resp.status = 200
                 /\ SamePosts(out'.resp.body, cache[key].posts)
       /\ \A key \in DOMAIN cache \cap DOMAIN cache' :
             cache'[key] # cache[key] =>
                 \E r \in Reqs : /\ req[r].pc = "get_set" /\ req'[r] # req[r]
                                 /\ key = _make_cache_key(req[r].user_id, "posts")
      ]_vars

\* C30 witness: a set has overwritten an unexpired entry of its owner, stored
\* earlier, with a sequence of at least one post
C30_Witness ==
    /\ out.op = "list" /\ out.resp.status = 200
    /\ "cache_overwrite" \in out.eff
    /\ Len(out.resp.body) >= 1
    /\ now > 0
    /\ LET key == _make_cache_key(out.user_id, "posts") IN
       /\ key \in DOMAIN cache
       /\ cache[key].expires = now + TTL
       /\ SamePosts(cache[key].posts, out.resp.body)

\* C31: when a set for a new owner would exceed maxSize, the entry evicted is
\* the one whose remaining TTL is smallest (the oldest inserted), also when an
\* older entry has been read by get more recently than a newer one.
C31_EvictsSmallestRemainingTTL ==
    [][\A r \in Reqs :
          req[r].pc = "get_set" /\ req'[r] # req[r] /\ Evicts(cache, req[r].user_id, now) =>
              \A k \in DOMAIN Expire(cache, now) \ DOMAIN cache' :
                  \A j \in DOMAIN Expire(cache, now) : cache[k].expires <= cache[j].expires
      ]_vars

\* C32: stats(O).totalPosts is the number of posts O owns in the repository
\* at the time of the call, whether O's cache entry is stale, expired or
\* absent; stats neither reads, sets nor invalidates a cache entry.
C32_StatsCountsRepository ==
    [][\A r \in Reqs :
          LET u == req[r].user_id IN
          /\ req[r].pc = "stats_count" /\ req'[r] # req[r] =>
                /\ cache' = cache /\ lru' = lru /\ posts' = posts
                /\ req'[r].pc = "stats_info" =>
                      req'[r].loc = <<Cardinality({p \in posts : p.user_id = u})>>
          /\ req[r].pc = "stats_info" /\ req'[r] # req[r] =>
                /\ req'[r] = IdleReq /\ out'.op = "stats" /\ out'.resp.status = 200
                /\ out'.resp.body[1].user_id = u
                /\ out'.resp.body[1].total_posts = Cardinality({p \in posts : p.user_id = u})
                /\ posts' = posts
                /\ Expire(cache', now') = Expire(cache, now)
                /\ out'.eff \cap {"cache_get", "cache_set", "cache_del"} = {}
      ]_vars

\* C32 witness: stats has reported the one post of an owner whose unexpired
\* cache entry still holds the empty listing
C32_Witness ==
    /\ out.op = "stats" /\ out.resp.status = 200
    /\ out.resp.body[1].total_posts = 1
    /\ Cardinality({p \in posts : p.user_id = out.user_id}) = 1
    /\ LET key == _make_cache_key(out.user_id, "posts") IN
       Contains(cache, key, now) /\ cache[key].posts = <<>>

\* C33: createPost is all-or-nothing with respect to its reported outcome: a
\* createPost(O, t) that ends with an error has left no new post of O in the
\* repository; one that ends with success has left exactly one new post, with
\* text t and owner O.
C33_CreateIsAllOrNothing ==
    /\ []((\A r \in Reqs : ~InFlight(r)) => {p.id : p \in posts} \subseteq created201)
    /\ [][out'.op = "create" /\ out'.pc = "done" =>
            IF out'.resp.status = 201
            THEN /\ Cardinality(posts' \ {p \in posts' : p.id \in created201}) = 1
                 /\ \E p \in posts' :
                       /\ p.id = out'.post_id /\ p.id \notin created201
                       /\ p.text = out'.text /\ p.user_id = out'.user_id
            ELSE posts' \ {p \in posts' : p.id \in created201} = {}
         ]_vars

\* C34: of two deletePost(p, O) requests on the same existing post, at most
\* one returns the success confirmation and the other ends with
\* PostNotFoundOrNotOwned (404) and no other error, whether the two overlap
\* or follow each other; the post is removed once.
C34_DeleteConfirmedOnce ==
    [][out'.op = "delete" /\ out'.pc = "done" /\ out'.auth = "ok"
       /\ out'.post_id \in deleted200
       /\ ~RepositoryFailed(out'.resp)
       => /\ out'.resp = DeleteNotFound("missing")
          /\ posts' = posts
      ]_vars

\* the unexpired cache entry of owner u, if there is one
LiveEntry(c, u, t) ==
    LET key == _make_cache_key(u, "posts") IN
    IF Contains(c, key, t) THEN <<c[key]>> ELSE <<>>

\* C35: createPost, deletePost, listPosts and stats issued for owner O1 never
\* change the repository posts of another owner O2 and never change O2's cache
\* entry, except that the set of a listPosts(O1) miss may evict O2's entry
\* when the cache is at maxSize.
C35_OtherOwnersUntouched ==
    [][now' = now =>
        \A o2 \in TokenUsers :
            LET changedPosts == PostsOf(posts', o2) # PostsOf(posts, o2)
                changedEntry == LiveEntry(cache', o2, now) # LiveEntry(cache, o2, now)
            IN changedPosts \/ changedEntry =>
                 \E r \in Reqs :
                    /\ req'[r] # req[r]
                    /\ \/ req[r].user_id = o2
                       \/ /\ ~changedPosts
                          /\ req[r].pc = "get_set"
                          /\ Evicts(cache, req[r].user_id, now)
                          /\ LiveEntry(cache', o2, now) = <<>>
      ]_vars

\* C35 witness: an owner's deletePost has been confirmed while another owner
\* has a post in the repository and an unexpired cache entry that lists it
C35_Witness ==
    /\ out.op = "delete" /\ out.resp.status = 200
    /\ \E o2 \in Users \ {out.user_id} :
          /\ PostsOf(posts, o2) # {}
          /\ LiveEntry(cache, o2, now) # <<>>
          /\ LiveEntry(cache, o2, now)[1].posts # <<>>

\* C36: an empty listing is cached like any other: the set of a listPosts(O)
\* miss that read no post stores the empty sequence for a TTL, and a
\* listPosts(O) that finds this entry unexpired is a cache hit that returns the
\* empty sequence without querying the repository.
C36_EmptyListingIsCached ==
    [][\A r \in Reqs :
          LET u == req[r].user_id IN
          /\ req[r].pc = "get_set" /\ req'[r] # req[r] /\ req[r].loc = <<>> =>
                /\ LiveEntry(cache', u, now') # <<>>
                /\ LiveEntry(cache', u, now')[1].posts = <<>>
                /\ LiveEntry(cache', u, now')[1].expires = now + TTL
          /\ /\ req[r].pc = "get_cache" /\ req'[r] # req[r]
             /\ LiveEntry(cache, u, now) # <<>>
             /\ LiveEntry(cache, u, now)[1].posts = <<>>
             => /\ req'[r] = IdleReq
                /\ out'.hit /\ out'.resp.status = 200 /\ out'.resp.body = <<>>
                /\ out'.eff = {"cache_get"}
                /\ posts' = posts /\ cache' = cache
      ]_vars

\* C36 witness: half a TTL or more after the empty listing of an owner without
\* posts was cached, a listPosts of the owner has been answered from the cache
C36_Witness ==
    /\ out.op = "list" /\ out.hit /\ out.resp.status = 200 /\ out.resp.body = <<>>
    /\ PostsOf(posts, out.user_id) = {}
    /\ LiveEntry(cache, out.user_id, now) # <<>>
    /\ now > LiveEntry(cache, out.user_id, now)[1].cached_at

\* the owners that have an unexpired cache entry
OwnersCached(c, t) == {u \in TokenUsers : LiveEntry(c, u, t) # <<>>}

\* C37: cacheInfo.size returned by stats(O1) is the number of live cache
\* entries over all owners, not only O1's: it is one more after another
\* owner's listing is cached and less after that entry is invalidated or
\* expires.
C37_SizeCountsAllOwners ==
    [][/\ \A r \in Reqs : req[r].pc = "stats_info" /\ req'[r] # req[r] =>
             out'.resp.body[1].cache_info.size = Cardinality(OwnersCached(cache, now))
       /\ \A r \in Reqs :
             /\ req[r].pc = "get_set" /\ req'[r] # req[r]
             /\ req[r].user_id \notin OwnersCached(cache, now)
             /\ ~Evicts(cache, req[r].user_id, now)
             => get_cache_info(cache', now').size = get_cache_info(cache, now).size + 1
       /\ \A r \in Reqs :
             /\ req[r].pc = "invalidate_del" /\ req'[r] # req[r]
             /\ req[r].user_id \in OwnersCached(cache, now)
             => get_cache_info(cache', now').size = get_cache_info(cache, now).size - 1
       /\ now' # now =>
             get_cache_info(cache', now').size =
                 Cardinality({u \in OwnersCached(cache, now) :
                                 now' < LiveEntry(cache, u, now)[1].expires})
      ]_vars

\* C37 witness: stats of an owner without a cache entry has reported size 1,
\* the entry of another owner
C37_Witness ==
    /\ out.op = "stats" /\ out.resp.status = 200
    /\ out.resp.body[1].cache_info.size = 1
    /\ out.user_id \notin OwnersCached(cache, now)
    /\ \E o2 \in Users \ {out.user_id} : o2 \in OwnersCached(cache, now)

====
